---- MODULE Spec2Model ----
(***************************************************************************)
(* Model of generate_cybersecurity_templates.py: the four stage export     *)
(* pipeline (create_phase_folders, generate_phase_files,                   *)
(* generate_summary_report, create_zip_archive) acting on a file system.   *)
(* Paths, file names and CSV bytes are character strings, handled with     *)
(* Len, \o and SubSeq the way the Python code handles them.                *)
(***************************************************************************)
EXTENDS Integers, Sequences, FiniteSets, TLC

(* ------------------------------ bounds -------------------------------- *)

\* Number of times the pipeline is run over the same working directory.
MaxRuns == 2

\* Number of directory listing orders the platform may use (os.walk order).
NumOrders == 2

\* Longest pause, in tenths of a second, between two runs of the pipeline.
MaxDelay == 1

(* --------------------------- configuration ---------------------------- *)

BASE_FOLDER == "Cybersecurity_Templates_&_Dashboards"

PHASES ==
  << "Phase_1_Governance_Risk_SOC",
     "Phase_2_Technical_Controls_Monitoring",
     "Phase_3_Threat_Intel_Automation",
     "Phase_4_Compliance_Audit",
     "Phase_5_Awareness_Reporting" >>

SAMPLE_DATA ==
  << <<"Control ID", "Description", "Owner", "Status", "Last Reviewed">>,
     <<"CTRL-001", "Firewall configuration and rule audit", "Network Team", "Active", "2025-10-01">>,
     <<"CTRL-002", "User Access Review (Quarterly)", "IT Security", "In Progress", "2025-09-15">>,
     <<"CTRL-003", "Database Encryption Validation", "DBA", "Completed", "2025-10-20">>,
     <<"CTRL-004", "Vulnerability Scan Report", "SOC Team", "Completed", "2025-10-22">>,
     <<"CTRL-005", "Incident Response Plan Drill", "CISO Office", "Planned", "2025-11-01">> >>

TREND_DATA ==
  << <<"Month", "Compliance %">>,
     <<"June", 72>>,
     <<"July", 76>>,
     <<"August", 81>>,
     <<"September", 85>>,
     <<"October", 88>>,
     <<"November", 92>> >>

\* time.sleep(0.4) after each phase, in tenths of a second.
SleepTenths == 4

(* ----------------------------- strings -------------------------------- *)

Char(s, i) == SubSeq(s, i, i)

\* Python's `sub in s` on strings.
Contains(s, sub) ==
  \E i \in 1..(Len(s) - Len(sub) + 1) : SubSeq(s, i, i + Len(sub) - 1) = sub

StartsWith(s, pre) == Len(pre) <= Len(s) /\ SubSeq(s, 1, Len(pre)) = pre

MaxOf(S) == CHOOSE m \in S : \A k \in S : k <= m

Slashes(p) == {i \in 1..Len(p) : Char(p, i) = "/"}

\* os.path.join of a path and one relative component.
join(a, b) == a \o "/" \o b

\* os.path.basename
basename(p) ==
  IF Slashes(p) = {} THEN p ELSE SubSeq(p, MaxOf(Slashes(p)) + 1, Len(p))

\* os.path.dirname ("" for a path of one component)
dirname(p) ==
  IF Slashes(p) = {} THEN "" ELSE SubSeq(p, 1, MaxOf(Slashes(p)) - 1)

\* os.path.relpath(p, start) for relative paths of the working directory,
\* start being a directory of one component.
relpath(p, start) ==
  IF StartsWith(p, start \o "/")
  THEN SubSeq(p, Len(start) + 2, Len(p))
  ELSE "../" \o p

\* str.replace(old, new) for a one character `old`, from position i on.
RECURSIVE replace_from(_, _, _, _)
replace_from(s, i, old, new) ==
  IF i > Len(s) THEN ""
  ELSE (IF Char(s, i) = old THEN new ELSE Char(s, i)) \o replace_from(s, i + 1, old, new)

replace(s, old, new) == replace_from(s, 1, old, new)

\* datetime.now().strftime('%Y-%m-%d %H:%M:%S'): the clock (tenths of a
\* second) cut to whole seconds.
strftime(t) == ToString(t \div 10)

(* ---------------------------- file system ----------------------------- *)

\* A file system maps each existing path to its node: a directory, or a
\* file holding raw bytes, a word document, a workbook or a zip archive.
Dir == [kind |-> "dir"]
RawFile(bytes) == [kind |-> "file", raw |-> bytes]
DocxFile(d) == [kind |-> "file", docx |-> d]
XlsxFile(w) == [kind |-> "file", xlsx |-> w]
ZipFile(entries) == [kind |-> "file", zip |-> entries]

\* What a write that failed half way leaves behind: the file, cut short.
Truncated == RawFile("")

Put(f, p, node) == [q \in DOMAIN f \cup {p} |-> IF q = p THEN node ELSE f[q]]

IsDir(f, p) == p \in DOMAIN f /\ f[p].kind = "dir"
IsFile(f, p) == p \in DOMAIN f /\ f[p].kind = "file"

\* os.makedirs(p, exist_ok=True): the missing ancestors, then p itself.
RECURSIVE makedirs(_, _)
makedirs(f, p) ==
  IF p = "" \/ IsDir(f, p) THEN f
  ELSE Put(makedirs(f, dirname(p)), p, Dir)

Children(f, d) == {q \in DOMAIN f : dirname(q) = d}

(* ------------------------------- paths -------------------------------- *)

phase_path(phase) == join(BASE_FOLDER, phase)
doc_path(phase) == join(phase_path(phase), phase \o "_Template.docx")
\* Variant: the workbook saved under the legacy extension.
xlsx_path_xls(phase) == join(phase_path(phase), phase \o "_Dashboard.xls")
xlsx_path(phase) == join(phase_path(phase), phase \o "_Dashboard.xlsx")
csv_path(phase) == join(phase_path(phase), phase \o "_Data.csv")
supporting_path == join(BASE_FOLDER, "Supporting_Files")
summary_path == join(join(BASE_FOLDER, "Supporting_Files"), "export_summary.csv")
exec_doc_path == join(BASE_FOLDER, "Cybersecurity_Executive_Summary.docx")
\* Variant: the archive written inside the tree it archives.
zip_filename_inside == join(BASE_FOLDER, BASE_FOLDER \o ".zip")
zip_filename == BASE_FOLDER \o ".zip"

\* The directories create_phase_folders makes, in the order it makes them.
FolderList == [k \in 1..(Len(PHASES) + 1) |->
                 IF k <= Len(PHASES) THEN phase_path(PHASES[k]) ELSE supporting_path]

(* ------------------------------- state -------------------------------- *)

VARIABLES
  fs,       \* the file system of the working directory
  pc,       \* the statement the run is at
  idx,      \* loop index of the current stage's for loop
  now,      \* the clock, in tenths of a second
  run,      \* number of the current run of the pipeline
  rot,      \* the platform's directory listing order
  summary,  \* generate_summary_report's list `summary`
  todo,     \* the files create_zip_archive's walk has still to add
  fsPrev    \* the file system as the previous run left it

vars == <<fs, pc, idx, now, run, rot, summary, todo, fsPrev>>

Init ==
  /\ fs = << >>
  /\ pc = "mkdir"
  /\ idx = 1
  /\ now = 0
  /\ run = 1
  /\ rot \in 0..(NumOrders - 1)
  /\ summary = << >>
  /\ todo = << >>
  /\ fsPrev = << >>

\* Variant: a handler that rolls the tree back before exiting.
Abort_cleanup(f) ==
  /\ fs' = fsPrev
  /\ pc' = "failed"
  /\ UNCHANGED <<idx, now, run, rot, summary, todo, fsPrev>>

\* An unhandled exception: the interpreter exits, the file system stays.
Abort(f) ==
  /\ fs' = f
  /\ pc' = "failed"
  /\ UNCHANGED <<idx, now, run, rot, summary, todo, fsPrev>>

(* ----------------------- create_phase_folders ------------------------- *)

\* Variant: the artifact generator left out of the run.
AfterFolders_skip == "walk"

\* The order of the four calls under __main__: the statement each stage
\* hands control to when it returns.
AfterFolders == "docx"
AfterPhaseFiles == "walk"
AfterSummary == "zip_open"
AfterZip == "done"

\* One os.makedirs call of the loop, or of the Supporting_Files line.
MakeFolder ==
  /\ pc = "mkdir"
  /\ \/ Abort(fs)
     \/ /\ ~IsDir(fs, BASE_FOLDER)
        /\ Abort(makedirs(fs, BASE_FOLDER))
     \/ /\ fs' = makedirs(fs, FolderList[idx])
        /\ IF idx < Len(FolderList)
           THEN idx' = idx + 1 /\ pc' = "mkdir"
           ELSE idx' = 1 /\ pc' = AfterFolders
        /\ UNCHANGED <<now, run, rot, summary, todo, fsPrev>>

(* ----------------------- generate_phase_files ------------------------- *)

\* The word document of a phase.
PhaseDocument(phase, t) ==
  [ heading |-> "Cybersecurity Phase Template",
    paragraphs |->
      << "This document provides a structured cybersecurity implementation template for this phase. "
           \o "It includes objectives, responsibilities, and key controls.",
         "Phase: " \o replace(phase, "_", " "),
         "Generated on: " \o strftime(t) >> ]

\* Variant: the document written beside the phase directories.
DocTarget_root(phase) == join(BASE_FOLDER, phase \o "_Template.docx")

\* Where the loop writes the document of a phase.
DocTarget(phase) == doc_path(phase)

GenDocx ==
  /\ pc = "docx"
  /\ LET phase == PHASES[idx] IN
     \/ Abort(fs)
     \/ Abort(Put(fs, DocTarget(phase), Truncated))
     \/ /\ fs' = Put(fs, DocTarget(phase), DocxFile(PhaseDocument(phase, now)))
        /\ pc' = "xlsx"
        /\ UNCHANGED <<idx, now, run, rot, summary, todo, fsPrev>>

\* Variant: the column read from every row, the header row included.
statuses_with_header == [k \in 1..Len(SAMPLE_DATA) |-> SAMPLE_DATA[k][4]]

\* statuses = [r[3] for r in SAMPLE_DATA[1:]]
statuses == [k \in 1..(Len(SAMPLE_DATA) - 1) |-> SAMPLE_DATA[k + 1][4]]

\* The distinct values of a list, in order of first occurrence.
RECURSIVE Distinct(_)
Distinct(seq) ==
  IF seq = << >> THEN << >>
  ELSE LET front == Distinct(SubSeq(seq, 1, Len(seq) - 1))
           last == seq[Len(seq)]
       IN IF \E k \in DOMAIN front : front[k] = last THEN front ELSE Append(front, last)

Occurrences(seq, v) == Cardinality({k \in DOMAIN seq : seq[k] = v})

\* Stable insertion of a <<value, count>> pair into a list sorted by
\* descending count.
RECURSIVE InsertByCount(_, _)
InsertByCount(sorted, pair) ==
  IF sorted = << >> THEN <<pair>>
  ELSE IF sorted[Len(sorted)][2] >= pair[2] THEN Append(sorted, pair)
  ELSE Append(InsertByCount(SubSeq(sorted, 1, Len(sorted) - 1), pair), sorted[Len(sorted)])

RECURSIVE SortByCount(_)
SortByCount(pairs) ==
  IF pairs = << >> THEN << >>
  ELSE InsertByCount(SortByCount(SubSeq(pairs, 1, Len(pairs) - 1)), pairs[Len(pairs)])

\* pd.Series(seq).value_counts().reset_index(): one <<value, count>> row per
\* distinct value, most frequent first, ties in order of first occurrence.
value_counts(seq) ==
  SortByCount([k \in DOMAIN Distinct(seq) |->
                 <<Distinct(seq)[k], Occurrences(seq, Distinct(seq)[k])>>])

df == value_counts(statuses)

\* openpyxl Reference(ws, min_col, min_row, max_row): one column of a sheet.
Reference(sheet, min_col, min_row, max_row) ==
  [sheet |-> sheet, min_col |-> min_col, max_col |-> min_col,
   min_row |-> min_row, max_row |-> max_row]

\* Variant: the category range one row short.
labels_ref_short == Reference("Status Summary", 1, 2, Len(df))

data_ref == Reference("Status Summary", 2, 1, Len(df) + 1)
labels_ref == Reference("Status Summary", 1, 2, Len(df) + 1)
data_ref_trend == Reference("Compliance Trend", 2, 1, Len(TREND_DATA))
labels_ref_trend == Reference("Compliance Trend", 1, 2, Len(TREND_DATA))

Chart(type, title, data, cats, anchor) ==
  [type |-> type, title |-> title, data |-> data, titles_from_data |-> TRUE,
   categories |-> cats, anchor |-> anchor]

\* len(str(cell.value)) of the widest cell of a column, plus 2.
ColumnWidth(rows, c) ==
  MaxOf({Len(rows[r][c]) : r \in DOMAIN rows}) + 2

\* The rows of the raw data sheet, one ws.append per row of SAMPLE_DATA.
ControlsRows == [r \in 1..Len(SAMPLE_DATA) |-> SAMPLE_DATA[r]]

\* The rows of the status sheet: the header, then one row per row of df.
StatusRows == <<<<"Status", "Count">>>> \o df

\* The workbook of a phase (the same for every phase).
Dashboard ==
  [ Controls |->
      [rows |-> ControlsRows,
       widths |-> [c \in 1..Len(SAMPLE_DATA[1]) |-> ColumnWidth(SAMPLE_DATA, c)]],
    StatusSummary |->
      [rows |-> StatusRows,
       charts |-> << Chart("pie", "Control Status Distribution", data_ref, labels_ref, "D2"),
                     Chart("bar", "Control Status by Count", data_ref, labels_ref, "D20") >>],
    ComplianceTrend |->
      [rows |-> [r \in 1..Len(TREND_DATA) |-> TREND_DATA[r]],
       charts |-> << Chart("line", "Monthly Compliance Trend",
                           data_ref_trend, labels_ref_trend, "D4") >>] ]

GenXlsx ==
  /\ pc = "xlsx"
  /\ LET phase == PHASES[idx] IN
     \/ Abort(fs)
     \/ Abort(Put(fs, xlsx_path(phase), Truncated))
     \/ /\ fs' = Put(fs, xlsx_path(phase), XlsxFile(Dashboard))
        /\ pc' = "csv"
        /\ UNCHANGED <<idx, now, run, rot, summary, todo, fsPrev>>

\* csv.writer, excel dialect: a field is quoted when it holds the
\* delimiter, the quote character or a line break; quotes are doubled.
NeedsQuote(field) ==
  \E i \in 1..Len(field) : Char(field, i) \in {",", "\"", "\r", "\n"}

QuoteField(field) == "\"" \o replace(field, "\"", "\"\"") \o "\""

CsvField(field) == IF NeedsQuote(field) THEN QuoteField(field) ELSE field

RECURSIVE JoinFields(_)
JoinFields(row) ==
  IF row = << >> THEN ""
  ELSE IF Len(row) = 1 THEN CsvField(row[1])
  ELSE CsvField(row[1]) \o "," \o JoinFields(Tail(row))

\* writer.writerow: the fields, comma separated, ended by "\r\n".
writerow(row) == JoinFields(row) \o "\r\n"

\* writer.writerows
RECURSIVE writerows(_)
writerows(rows) ==
  IF rows = << >> THEN "" ELSE writerow(Head(rows)) \o writerows(Tail(rows))

MinOf(S) == CHOOSE m \in S : \A k \in S : m <= k

\* A quoted field's text from position i on: each doubled quote stands for
\* one quote.
RECURSIVE unescape_from(_, _)
unescape_from(t, i) ==
  IF i > Len(t) THEN ""
  ELSE IF i < Len(t) /\ SubSeq(t, i, i + 1) = "\"\""
  THEN "\"" \o unescape_from(t, i + 2)
  ELSE Char(t, i) \o unescape_from(t, i + 1)

Unescape(t) == unescape_from(t, 1)

\* The first delimiter or line break of s at or after position i.
FieldStop(s, i) ==
  MinOf({j \in i..Len(s) : Char(s, j) \in {",", "\r", "\n"}} \cup {Len(s) + 1})

\* The quote that closes the quoted field opened at position i.
ClosingQuote(s, i) ==
  MinOf({j \in (i + 1)..Len(s) :
           /\ Char(s, j) = "\""
           /\ Cardinality({k \in (i + 1)..j : Char(s, k) = "\""}) % 2 = 1
           /\ (j = Len(s) \/ Char(s, j + 1) # "\"")}
        \cup {Len(s) + 1})

\* The field that starts at position i: its text, and where it stops.
FieldAt(s, i) ==
  IF Char(s, i) = "\""
  THEN LET close == ClosingQuote(s, i)
           stop == IF close >= Len(s) THEN Len(s) + 1 ELSE FieldStop(s, close + 1)
       IN [text |-> Unescape(SubSeq(s, i + 1, close - 1)) \o SubSeq(s, close + 1, stop - 1),
           stop |-> stop]
  ELSE [text |-> SubSeq(s, i, FieldStop(s, i) - 1), stop |-> FieldStop(s, i)]

\* csv.reader, excel dialect: the rows of fields a CSV text parses to.
RECURSIVE reader(_, _, _, _)
reader(s, i, row, rows) ==
  IF i > Len(s)
  THEN IF row = << >> THEN rows ELSE Append(rows, Append(row, ""))
  ELSE LET field == FieldAt(s, i)
           stop == field.stop
       IN IF stop > Len(s) THEN Append(rows, Append(row, field.text))
          ELSE IF Char(s, stop) = ","
          THEN reader(s, stop + 1, Append(row, field.text), rows)
          ELSE LET n == IF Char(s, stop) = "\r" /\ stop < Len(s) /\ Char(s, stop + 1) = "\n"
                        THEN 2 ELSE 1
               IN reader(s, stop + n, << >>, Append(rows, Append(row, field.text)))

ParseCsv(s) == reader(s, 1, << >>, << >>)

\* Variant: the rows written without the header row.
DataCsv_no_header == writerows(Tail(SAMPLE_DATA))

\* The bytes of a phase's CSV file.
DataCsv == writerows(SAMPLE_DATA)

\* Variant: the file opened in append mode.
open_a(f, p, bytes) ==
  IF IsFile(f, p) /\ "raw" \in DOMAIN f[p]
  THEN Put(f, p, RawFile(f[p].raw \o bytes))
  ELSE Put(f, p, RawFile(bytes))

\* open(path, "w") followed by the writes: the file holds the new bytes only.
open_w(f, p, bytes) == Put(f, p, RawFile(bytes))

\* The CSV write of an iteration, and the sleep that ends the iteration.
GenCsv ==
  /\ pc = "csv"
  /\ LET phase == PHASES[idx] IN
     \/ Abort(fs)
     \/ Abort(Put(fs, csv_path(phase), Truncated))
     \/ /\ fs' = open_w(fs, csv_path(phase), DataCsv)
        /\ now' = now + SleepTenths
        /\ IF idx < Len(PHASES)
           THEN idx' = idx + 1 /\ pc' = "docx"
           ELSE idx' = 1 /\ pc' = AfterPhaseFiles
        /\ UNCHANGED <<run, rot, summary, todo, fsPrev>>

(* ---------------------------- os.walk --------------------------------- *)

\* Every path the program can create, in name order.
AllPaths ==
  <<BASE_FOLDER, exec_doc_path>>
  \o [k \in 1..Len(PHASES) |-> phase_path(PHASES[k])]
  \o [k \in 1..(3 * Len(PHASES)) |->
        LET phase == PHASES[(k + 2) \div 3] IN
        IF k % 3 = 1 THEN xlsx_path(phase)
        ELSE IF k % 3 = 2 THEN csv_path(phase)
        ELSE doc_path(phase)]
  \o <<supporting_path, summary_path, zip_filename>>

\* Names the program does not create itself sort last.
Position(p) ==
  IF \E k \in DOMAIN AllPaths : AllPaths[k] = p
  THEN CHOOSE k \in DOMAIN AllPaths : AllPaths[k] = p
  ELSE Len(AllPaths) + 1

\* A set of paths as a list in name order: the k-th is the one with k-1
\* paths before it.
InNameOrder(S) ==
  [k \in 1..Cardinality(S) |->
     CHOOSE p \in S : Cardinality({q \in S : Position(q) < Position(p)}) = k - 1]

Reverse(seq) == [k \in 1..Len(seq) |-> seq[Len(seq) + 1 - k]]

RotateLeft(seq, n) ==
  IF seq = << >> THEN seq
  ELSE [k \in 1..Len(seq) |-> seq[((k - 1 + n) % Len(seq)) + 1]]

\* os.scandir: the entries of a directory in the platform's order r, which
\* the language leaves open: name order, its reverse, or a rotation of one
\* of the two.
listdir(f, d, r) ==
  LET sorted == InNameOrder(Children(f, d))
      base == IF r % 2 = 1 THEN Reverse(sorted) ELSE sorted
  IN RotateLeft(base, r \div 2)

RECURSIVE walk_from(_, _, _)
walk_from(f, stack, r) ==
  IF stack = << >> THEN << >>
  ELSE LET root == Head(stack)
           entries == listdir(f, root, r)
           dirs == SelectSeq(entries, LAMBDA q : f[q].kind = "dir")
           files == SelectSeq(entries, LAMBDA q : f[q].kind = "file")
       IN << [root |-> root,
              dirs |-> [k \in DOMAIN dirs |-> basename(dirs[k])],
              files |-> [k \in DOMAIN files |-> basename(files[k])]] >>
          \o walk_from(f, dirs \o Tail(stack), r)

\* os.walk(top): top down, one (root, dirs, files) triple per directory;
\* nothing when top is no directory.
walk(f, top, r) == IF IsDir(f, top) THEN walk_from(f, <<top>>, r) ELSE << >>

(* ---------------------- generate_summary_report ----------------------- *)

RECURSIVE SumSeq(_)
SumSeq(seq) == IF seq = << >> THEN 0 ELSE Head(seq) + SumSeq(Tail(seq))

\* os.path.getsize: the byte count of a raw file; a document, a workbook or
\* an archive is a container, taken as a fixed overhead plus its text.
getsize(node) ==
  IF "raw" \in DOMAIN node THEN Len(node.raw)
  ELSE IF "docx" \in DOMAIN node
  THEN 36000 + Len(node.docx.heading)
       + SumSeq([k \in DOMAIN node.docx.paragraphs |-> Len(node.docx.paragraphs[k])])
  ELSE IF "xlsx" \in DOMAIN node
  THEN 8000 + 16 * (Len(node.xlsx.Controls.rows) + Len(node.xlsx.StatusSummary.rows)
                    + Len(node.xlsx.ComplianceTrend.rows))
  ELSE 22 + 100 * Len(node.zip)

\* round(total / 1024, 2), in hundredths of a kilobyte.
RoundKB(total) == (total * 100 + 512) \div 1024

\* str() of a float that holds hundredths.
FloatStr(h) ==
  ToString(h \div 100) \o "." \o
    (IF h % 10 = 0 THEN ToString((h % 100) \div 10)
     ELSE IF h % 100 < 10 THEN "0" \o ToString(h % 100)
     ELSE ToString(h % 100))

\* Variant: the test without the name check.
IsPhaseRow_files_only(triple) == triple.files # << >>

\* The test that decides whether a walked directory gets a row.
IsPhaseRow(triple) == triple.files # << >> /\ Contains(triple.root, "Phase_")

\* The row of one walked directory.
SummaryRow(f, triple, t) ==
  [ Phase |-> basename(triple.root),
    Files |-> Len(triple.files),
    Total_Size_KB |->
      RoundKB(SumSeq([k \in DOMAIN triple.files |->
                        getsize(f[join(triple.root, triple.files[k])])])),
    Last_Updated |-> strftime(t) ]

\* The loop over os.walk(BASE_FOLDER) that fills `summary`.
RECURSIVE Summarize(_, _, _)
Summarize(f, triples, t) ==
  IF triples = << >> THEN << >>
  ELSE IF IsPhaseRow(Head(triples))
  THEN <<SummaryRow(f, Head(triples), t)>> \o Summarize(f, Tail(triples), t)
  ELSE Summarize(f, Tail(triples), t)

SummaryWalk ==
  /\ pc = "walk"
  /\ \/ Abort(fs)
     \/ /\ summary' = Summarize(fs, walk(fs, BASE_FOLDER, rot), now)
        /\ pc' = "to_csv"
        /\ UNCHANGED <<fs, idx, now, run, rot, todo, fsPrev>>

\* One row of DataFrame.to_csv(index=False).
SummaryLine(row) ==
  JoinFields(<<row.Phase, ToString(row.Files), FloatStr(row.Total_Size_KB), row.Last_Updated>>)
  \o "\n"

RECURSIVE SummaryLines(_)
SummaryLines(rows) ==
  IF rows = << >> THEN "" ELSE SummaryLine(Head(rows)) \o SummaryLines(Tail(rows))

\* pd.DataFrame(summary).to_csv(index=False): the header, then one line per
\* row; a frame without rows has no columns and gives an empty first line.
to_csv(rows) ==
  IF rows = << >> THEN "\n"
  ELSE "Phase,Files,Total_Size_KB,Last_Updated\n" \o SummaryLines(rows)

WriteSummaryCsv ==
  /\ pc = "to_csv"
  /\ \/ Abort(fs)
     \/ Abort(Put(fs, summary_path, Truncated))
     \/ /\ fs' = Put(fs, summary_path, RawFile(to_csv(summary)))
        /\ pc' = "exec_doc"
        /\ UNCHANGED <<idx, now, run, rot, summary, todo, fsPrev>>

\* The executive summary document (the dash of its title written as -):
\* the table renders df_summary.
ExecutiveSummary(rows, t) ==
  [ heading |-> "Cybersecurity Program - Executive Summary",
    sections |-> <<"Phase Overview", "Recommendations">>,
    paragraphs |->
      << "Report generated on: " \o strftime(t),
         "This document provides an overview of all cybersecurity implementation phases, key metrics, and control status distribution.",
         "\nOverall compliance shows steady improvement across all phases, with most controls marked as 'Completed' or 'Active'.",
         "- Continue quarterly user access reviews.",
         "- Increase automation coverage for vulnerability management.",
         "- Schedule an annual review of SOC incident response procedures.",
         "- Maintain awareness and training programs for new staff." >>,
    table |->
      <<<<"Phase", "Files", "Total Size (KB)", "Last Updated">>>>
      \o [k \in DOMAIN rows |->
            <<rows[k].Phase, ToString(rows[k].Files),
              FloatStr(rows[k].Total_Size_KB), rows[k].Last_Updated>>] ]

WriteExecDoc ==
  /\ pc = "exec_doc"
  /\ \/ Abort(fs)
     \/ Abort(Put(fs, exec_doc_path, Truncated))
     \/ /\ fs' = Put(fs, exec_doc_path, DocxFile(ExecutiveSummary(summary, now)))
        /\ pc' = AfterSummary
        /\ UNCHANGED <<idx, now, run, rot, summary, todo, fsPrev>>

(* ------------------------- create_zip_archive ------------------------- *)

\* The name an archived file gets.
arcname(path) == relpath(path, BASE_FOLDER)

\* The paths the two nested loops visit, in order.
RECURSIVE WalkedFiles(_)
WalkedFiles(triples) ==
  IF triples = << >> THEN << >>
  ELSE [k \in DOMAIN Head(triples).files |->
          join(Head(triples).root, Head(triples).files[k])]
       \o WalkedFiles(Tail(triples))

\* zipfile.ZipFile(zip_filename, "w"): the archive is created, or emptied.
ZipOpen ==
  /\ pc = "zip_open"
  /\ \/ Abort(fs)
     \/ /\ fs' = Put(fs, zip_filename, ZipFile(<< >>))
        /\ todo' = WalkedFiles(walk(fs', BASE_FOLDER, rot))
        /\ pc' = "zip_write"
        /\ UNCHANGED <<idx, now, run, rot, summary, fsPrev>>

\* One zipf.write(path, arcname); the with block leaves when the walk ends.
ZipWrite ==
  /\ pc = "zip_write"
  /\ \/ Abort(fs)
     \/ /\ todo # << >>
        /\ fs' = Put(fs, zip_filename,
                     ZipFile(Append(fs[zip_filename].zip,
                                    [name |-> arcname(Head(todo)), data |-> fs[Head(todo)]])))
        /\ todo' = Tail(todo)
        /\ UNCHANGED <<pc, idx, now, run, rot, summary, fsPrev>>
     \/ /\ todo = << >>
        /\ pc' = AfterZip
        /\ UNCHANGED <<fs, idx, now, run, rot, summary, todo, fsPrev>>

(* ------------------------------- runs --------------------------------- *)

\* The program is started again in the same working directory, over the
\* tree a completed run left.
Rerun ==
  /\ pc = "done"
  /\ run < MaxRuns
  /\ \E d \in 0..MaxDelay : now' = now + d
  /\ run' = run + 1
  /\ pc' = "mkdir"
  /\ idx' = 1
  /\ summary' = << >>
  /\ todo' = << >>
  /\ fsPrev' = fs
  /\ UNCHANGED <<fs, rot>>

Step ==
  \/ MakeFolder
  \/ GenDocx
  \/ GenXlsx
  \/ GenCsv
  \/ SummaryWalk
  \/ WriteSummaryCsv
  \/ WriteExecDoc
  \/ ZipOpen
  \/ ZipWrite

Next == Step \/ Rerun

Spec == Init /\ [][Next]_vars

\* The interpreter keeps executing the program until it returns or raises.
FairSpec == Spec /\ WF_vars(Step)

(* ------------------------------ claims -------------------------------- *)

PhaseDir(P) == BASE_FOLDER \o "/" \o P

ThreeArtifacts(P) ==
  { PhaseDir(P) \o "/" \o P \o "_Template.docx",
    PhaseDir(P) \o "/" \o P \o "_Dashboard.xlsx",
    PhaseDir(P) \o "/" \o P \o "_Data.csv" }

Below(f, d) == {q \in DOMAIN f : StartsWith(q, d \o "/")}

ArchivePath == BASE_FOLDER \o ".zip"
SummaryCsvPath == BASE_FOLDER \o "/Supporting_Files/export_summary.csv"
ExecDocPath == BASE_FOLDER \o "/Cybersecurity_Executive_Summary.docx"

EntryNames(f) ==
  IF ArchivePath \in DOMAIN f /\ "zip" \in DOMAIN f[ArchivePath]
  THEN {f[ArchivePath].zip[k].name : k \in DOMAIN f[ArchivePath].zip}
  ELSE {}

\* C1: when generate_phase_files has completed, every phase directory
\* holds exactly its three files, P_Template.docx, P_Dashboard.xlsx and
\* P_Data.csv, and nothing else.
C1_ExactlyThreeFiles ==
  pc = "walk" =>
    \A k \in 1..Len(PHASES) :
      /\ Below(fs, PhaseDir(PHASES[k])) = ThreeArtifacts(PHASES[k])
      /\ \A q \in ThreeArtifacts(PHASES[k]) : fs[q].kind = "file"

W_C1 == pc = "walk" /\ run = 1 /\ fsPrev = << >> /\ Cardinality(DOMAIN fs) = 22

\* C2: the finished archive lies beside BASE_FOLDER, holds exactly one
\* entry per file under BASE_FOLDER, named by the file's path relative to
\* BASE_FOLDER and holding the file's content, holds no other entry (so
\* not itself), and extracting it reproduces the files of the tree.
C2_ArchiveMirrorsTree ==
  pc = "done" =>
    /\ ArchivePath \in DOMAIN fs
    /\ "zip" \in DOMAIN fs[ArchivePath]
    /\ LET E == fs[ArchivePath].zip
           F == {q \in Below(fs, BASE_FOLDER) : fs[q].kind = "file"}
           Rel(q) == SubSeq(q, Len(BASE_FOLDER) + 2, Len(q))
           Extracted == [q \in {BASE_FOLDER \o "/" \o E[k].name : k \in DOMAIN E} |->
                           (CHOOSE e \in {E[k] : k \in DOMAIN E} :
                              BASE_FOLDER \o "/" \o e.name = q).data]
       IN /\ Len(E) = Cardinality(F)
          /\ \A q \in F :
               /\ Cardinality({k \in DOMAIN E : E[k].name = Rel(q)}) = 1
               /\ \A k \in DOMAIN E : E[k].name = Rel(q) => E[k].data = fs[q]
          /\ \A k \in DOMAIN E : \E q \in F : E[k].name = Rel(q)
          /\ ArchivePath \notin F
          /\ Extracted = [q \in F |-> fs[q]]

W_C2 == pc = "done" /\ run = 2 /\ Len(fs[ArchivePath].zip) = 17

\* C3 as stated: after the second run every P_Data.csv and
\* Supporting_Files/export_summary.csv is byte-identical to the first
\* run's, and the archive has the same entry paths.
C3_RerunIdenticalCsv ==
  (pc = "done" /\ run >= 2) =>
    /\ \A k \in 1..Len(PHASES) :
         fs[PhaseDir(PHASES[k]) \o "/" \o PHASES[k] \o "_Data.csv"]
           = fsPrev[PhaseDir(PHASES[k]) \o "/" \o PHASES[k] \o "_Data.csv"]
    /\ fs[SummaryCsvPath] = fsPrev[SummaryCsvPath]
    /\ EntryNames(fs) = EntryNames(fsPrev)

PhaseAndFiles(bytes) ==
  LET t == ParseCsv(bytes) IN {<<t[j][1], t[j][2]>> : j \in 2..Len(t)}

\* C3 (amended): after the second run every P_Data.csv is byte-identical
\* to the first run's and the archive has the same entry paths;
\* export_summary.csv has the same header and the same Phase and Files
\* values, its other two columns being excluded from the comparison.
C3_RerunIdenticalData ==
  (pc = "done" /\ run >= 2) =>
    /\ \A k \in 1..Len(PHASES) :
         fs[PhaseDir(PHASES[k]) \o "/" \o PHASES[k] \o "_Data.csv"]
           = fsPrev[PhaseDir(PHASES[k]) \o "/" \o PHASES[k] \o "_Data.csv"]
    /\ EntryNames(fs) = EntryNames(fsPrev)
    /\ ParseCsv(fs[SummaryCsvPath].raw)[1] = ParseCsv(fsPrev[SummaryCsvPath].raw)[1]
    /\ PhaseAndFiles(fs[SummaryCsvPath].raw) = PhaseAndFiles(fsPrev[SummaryCsvPath].raw)

W_C3 ==
  /\ pc = "done"
  /\ run = 2
  /\ fs[SummaryCsvPath].raw # fsPrev[SummaryCsvPath].raw
  /\ Cardinality(PhaseAndFiles(fs[SummaryCsvPath].raw)) = 5

\* C4: the table just written to export_summary.csv has one row per phase
\* directory that contains files and no other row (none for BASE_FOLDER,
\* none for Supporting_Files), and each row's Files value is the number of
\* files directly in that phase directory.
C4_SummaryRowsArePhases ==
  pc = "exec_doc" =>
    LET t == ParseCsv(fs[SummaryCsvPath].raw)
        body == Tail(t)
        FilesOf(P) == {q \in DOMAIN fs : fs[q].kind = "file" /\ dirname(q) = PhaseDir(P)}
        WithFiles == {k \in 1..Len(PHASES) : FilesOf(PHASES[k]) # {}}
    IN /\ t[1] = <<"Phase", "Files", "Total_Size_KB", "Last_Updated">>
       /\ Len(body) = Cardinality(WithFiles)
       /\ \A k \in WithFiles :
            \E j \in DOMAIN body :
              /\ body[j][1] = PHASES[k]
              /\ body[j][2] = ToString(Cardinality(FilesOf(PHASES[k])))
       /\ \A j \in DOMAIN body : \E k \in WithFiles : body[j][1] = PHASES[k]

W_C4 ==
  /\ pc = "exec_doc"
  /\ run = 2
  /\ SummaryCsvPath \in DOMAIN fsPrev
  /\ ExecDocPath \in DOMAIN fs
  /\ Len(ParseCsv(fs[SummaryCsvPath].raw)) = 6

\* C5: each phase's P_Data.csv parses back to the rows of SAMPLE_DATA,
\* header first and in order, and the Controls sheet of the phase's
\* workbook holds the same rows in the same order.
C5_CsvRoundTrip ==
  pc = "walk" =>
    \A k \in 1..Len(PHASES) :
      LET P == PHASES[k] IN
      /\ ParseCsv(fs[PhaseDir(P) \o "/" \o P \o "_Data.csv"].raw) = SAMPLE_DATA
      /\ fs[PhaseDir(P) \o "/" \o P \o "_Dashboard.xlsx"].xlsx.Controls.rows = SAMPLE_DATA
      /\ ParseCsv(fs[PhaseDir(P) \o "/" \o P \o "_Data.csv"].raw)
           = fs[PhaseDir(P) \o "/" \o P \o "_Dashboard.xlsx"].xlsx.Controls.rows

W_C5 ==
  /\ pc = "walk"
  /\ \A k \in 1..Len(PHASES) :
       Len(fs[PhaseDir(PHASES[k]) \o "/" \o PHASES[k] \o "_Data.csv"].raw) > 0

Workbooks == {q \in DOMAIN fs : "xlsx" \in DOMAIN fs[q]}

ControlStatuses == {SAMPLE_DATA[r][4] : r \in 2..Len(SAMPLE_DATA)}

\* C6: in every workbook written, the Status Summary sheet holds its
\* header, then exactly one row per distinct status of the control
\* records, each with the number of control records of that status, and
\* the counts sum to the number of control records.
C6_StatusCounts ==
  \A q \in Workbooks :
    LET rows == fs[q].xlsx.StatusSummary.rows IN
    /\ rows[1] = <<"Status", "Count">>
    /\ Len(rows) - 1 = Cardinality(ControlStatuses)
    /\ \A st \in ControlStatuses :
         /\ Cardinality({j \in 2..Len(rows) : rows[j][1] = st}) = 1
         /\ \A j \in 2..Len(rows) :
              rows[j][1] = st =>
                rows[j][2] = Cardinality({r \in 2..Len(SAMPLE_DATA) : SAMPLE_DATA[r][4] = st})
    /\ SumSeq([j \in 1..(Len(rows) - 1) |-> rows[j + 1][2]]) = Len(SAMPLE_DATA) - 1

W_C6 ==
  /\ Cardinality(Workbooks) = Len(PHASES)
  /\ \A q \in Workbooks : Len(fs[q].xlsx.StatusSummary.rows) = 5

StageNo(p) ==
  CASE p = "mkdir" -> 1
    [] p \in {"docx", "xlsx", "csv"} -> 2
    [] p \in {"walk", "to_csv", "exec_doc"} -> 3
    [] p \in {"zip_open", "zip_write"} -> 4
    [] p = "done" -> 5
    [] OTHER -> 0

StageOrder ==
  \/ pc' = "failed"
  \/ StageNo(pc') = StageNo(pc)
  \/ StageNo(pc') = StageNo(pc) + 1
  \/ pc = "done" /\ pc' = "mkdir" /\ run' = run + 1

ReporterSeesArtifacts ==
  pc = "walk" =>
    \A k \in 1..Len(PHASES) :
      LET P == PHASES[k] IN
      /\ ThreeArtifacts(P) \subseteq DOMAIN fs
      /\ "docx" \in DOMAIN fs[PhaseDir(P) \o "/" \o P \o "_Template.docx"]
      /\ "xlsx" \in DOMAIN fs[PhaseDir(P) \o "/" \o P \o "_Dashboard.xlsx"]
      /\ fs[PhaseDir(P) \o "/" \o P \o "_Data.csv"].raw # ""

FinalLayout ==
  pc = "done" =>
    /\ DOMAIN fs =
         {BASE_FOLDER, BASE_FOLDER \o "/Supporting_Files", SummaryCsvPath, ExecDocPath, ArchivePath}
         \cup {PhaseDir(PHASES[k]) : k \in 1..Len(PHASES)}
         \cup UNION {ThreeArtifacts(PHASES[k]) : k \in 1..Len(PHASES)}
    /\ \A q \in {BASE_FOLDER, BASE_FOLDER \o "/Supporting_Files"}
                \cup {PhaseDir(PHASES[k]) : k \in 1..Len(PHASES)} : fs[q].kind = "dir"
    /\ "docx" \in DOMAIN fs[ExecDocPath]
    /\ "raw" \in DOMAIN fs[SummaryCsvPath]
    /\ {"Supporting_Files/export_summary.csv", "Cybersecurity_Executive_Summary.docx"}
         \subseteq EntryNames(fs)

\* C7: the stages run in the order folder initializer, artifact generator,
\* summary reporter, archiver, one after the other, and the run ends; when
\* the summary reporter starts every phase directory holds its three
\* artifacts; a completed run leaves the root with one directory per phase,
\* Supporting_Files/export_summary.csv, the executive summary document and
\* the archive beside the root, the archive holding the summary CSV and the
\* executive summary document.
C7_SequentialPipeline ==
  /\ [](ReporterSeesArtifacts /\ FinalLayout)
  /\ [][StageOrder]_vars
  /\ (pc \notin {"done", "failed"}) ~> (pc \in {"done", "failed"})

W_C7 == pc = "done" /\ run = 1 /\ EntryNames(fs) # {}

ArchiveIn(f) == IF ArchivePath \in DOMAIN f THEN <<f[ArchivePath]>> ELSE << >>

FailStep ==
  /\ pc = "failed" => UNCHANGED vars
  /\ pc' = "failed" =>
       /\ DOMAIN fs \subseteq DOMAIN fs'
       /\ Cardinality({q \in DOMAIN fs' : q \notin DOMAIN fs \/ fs'[q] # fs[q]}) <= 1
       /\ pc \notin {"zip_open", "zip_write"} => ArchiveIn(fs') = ArchiveIn(fsPrev)

PhaseFrame ==
  pc \in {"docx", "xlsx", "csv"} =>
    \A q \in DOMAIN fs \cup DOMAIN fs' :
      ~StartsWith(q, PhaseDir(PHASES[idx]) \o "/") =>
        q \in DOMAIN fs /\ q \in DOMAIN fs' /\ fs'[q] = fs[q]

PhaseOrder ==
  /\ (pc \notin {"docx", "xlsx", "csv"} /\ pc' \in {"docx", "xlsx", "csv"}) =>
       pc' = "docx" /\ idx' = 1
  /\ (pc \in {"docx", "xlsx", "csv"} /\ pc' \in {"docx", "xlsx", "csv"}) =>
       \/ idx' = idx
       \/ pc = "csv" /\ pc' = "docx" /\ idx' = idx + 1
  /\ (pc \in {"docx", "xlsx", "csv"} /\ pc' = "walk") => idx = Len(PHASES)

\* C9: a step of the artifact generator for phase P creates or modifies
\* nothing outside BASE_FOLDER/P, and the phases are taken one at a time
\* in the order of PHASES, starting with the first.
C9_PhaseFrame == [][PhaseFrame /\ PhaseOrder]_vars

W_C9 ==
  /\ pc = "csv"
  /\ idx = 3
  /\ run = 2
  /\ "docx" \in DOMAIN fs[PhaseDir(PHASES[3]) \o "/" \o PHASES[3] \o "_Template.docx"]

\* C10: in every workbook written, the pie and the bar chart take their
\* data from column 2, rows 1..n+1, and their categories from column 1,
\* rows 2..n+1, of the Status Summary sheet (n distinct statuses), the
\* line chart from column 2, rows 1..len(TREND_DATA), and column 1, rows
\* 2..len(TREND_DATA), of the Compliance Trend sheet; the last referenced
\* row is the last written row of the sheet.
C10_ChartRanges ==
  \A q \in Workbooks :
    LET ss == fs[q].xlsx.StatusSummary
        ct == fs[q].xlsx.ComplianceTrend
        n == Cardinality(ControlStatuses)
        Col(sheet, c, lo, hi) ==
          [sheet |-> sheet, min_col |-> c, max_col |-> c, min_row |-> lo, max_row |-> hi]
    IN /\ Len(ss.charts) = 2
       /\ ss.charts[1].type = "pie" /\ ss.charts[2].type = "bar"
       /\ \A c \in 1..2 :
            /\ ss.charts[c].data = Col("Status Summary", 2, 1, n + 1)
            /\ ss.charts[c].categories = Col("Status Summary", 1, 2, n + 1)
            /\ ss.charts[c].data.max_row = Len(ss.rows)
            /\ ss.charts[c].categories.max_row = Len(ss.rows)
       /\ Len(ct.charts) = 1
       /\ ct.charts[1].type = "line"
       /\ ct.charts[1].data = Col("Compliance Trend", 2, 1, Len(TREND_DATA))
       /\ ct.charts[1].categories = Col("Compliance Trend", 1, 2, Len(TREND_DATA))
       /\ ct.charts[1].data.max_row = Len(ct.rows)
       /\ ct.charts[1].categories.max_row = Len(ct.rows)

W_C10 ==
  /\ pc = "to_csv"
  /\ Cardinality(Workbooks) = Len(PHASES)
  /\ \A q \in Workbooks : Len(fs[q].xlsx.ComplianceTrend.rows) = 7
====
